---- MODULE Spec2Model ----
(***************************************************************************)
(* Model of the crawl-and-download engine of offline-npm-repository:       *)
(* the engine controller (npmDownloadService), the metadata worker pool,   *)
(* the tarball worker pool, the shared crawl state (localNpmState), the    *)
(* local store (localNpmRepo) and the seed descriptor (RetrievePackage).   *)
(*                                                                         *)
(* Strings that the code splits or matches are sequences: a raw seed       *)
(* "foo|alpha" is the tuple of its "|"-separated parts <<"foo", alpha>>,   *)
(* a pre-release tag or a pattern is a sequence of characters.  Time is an *)
(* integer number of ticks, TicksPerSecond of them to the second; the zero *)
(* time.Time is 0.                                                         *)
(***************************************************************************)
EXTENDS Integers, Sequences, FiniteSets, Bags, TLC

\* ------------------------------------------------------------------ bounds
MaxMetadataWorkers == 2   \* metadata workers of the concurrent configurations
Retries == 2              \* attempts the worker pools are configured with
MaxRuns == 2              \* engine runs in sequence (incremental mirror)
FirstRunStart == 5        \* wall clock at the first run (after every release)
TicksPerSecond == 2       \* resolution of the clock below the second
MaxTarballWorkers == 2    \* tarball workers of the configuration with concurrent downloads
MaxField == 1             \* largest major, minor and patch number given to Compare
SmallCapacity == 1        \* channel capacity of the configurations that fill a channel

\* ------------------------------------------------------- program constants
maxMetadataRetries == 5
maxRetries == 5
channelBufferSize == 100000
PreviouslyInLocalRepoState == 0
AnalysingState == 1
AnalysedState == 2
ZeroTime == 0

Range(s) == {s[i] : i \in 1..Len(s)}

\* ------------------------------------------------------------- characters
alpha == <<"a", "l", "p", "h", "a">>
beta == <<"b", "e", "t", "a">>
NoRe == <<>>              \* a nil *regexp.Regexp
NoPre == <<>>             \* the empty PreRelease string

\* regexp.Compile on the literal patterns used here: an unbalanced "[" does
\* not compile and leaves the regexp nil.
Compile(pattern) == IF "[" \in Range(pattern) THEN NoRe ELSE pattern

\* (*Regexp).MatchString for a literal pattern: an unanchored search.
MatchString(re, s) ==
    \E i \in 1..(Len(s) - Len(re) + 1) : SubSeq(s, i, i + Len(re) - 1) = re

\* parts is strings.Split(name, "|").
NewRetrievePackage(parts) ==
    LET re == IF Len(parts) > 1 /\ parts[2] # <<>> THEN Compile(parts[2]) ELSE NoRe
        nme == parts[1]
    IN [Name |-> nme,
        allowedPreVersion |-> re,
        fullName |-> IF re = NoRe THEN <<nme>> ELSE <<nme, re>>]

\* IsMatchingPreRelease that lets a descriptor without predicate match any tag.
IsMatchingPreRelease_NilMatches(r, preRelease) ==
    IF r.allowedPreVersion = NoRe THEN TRUE
    ELSE MatchString(r.allowedPreVersion, preRelease)

IsMatchingPreRelease(r, preRelease) ==
    IF r.allowedPreVersion = NoRe THEN FALSE
    ELSE MatchString(r.allowedPreVersion, preRelease)

\* String that gives the package name alone.
String_NameOnly(r) ==
    <<r.Name>>

String(r) ==
    r.fullName

\* --------------------------------------------------------------- versions
SemVer(major, minor, patch, pre) ==
    [Major |-> major, Minor |-> minor, Patch |-> patch, PreRelease |-> pre]

IsPreRelease(v) == v.PreRelease # NoPre

\* The order of the bytes of the tags.
Alphabet == <<"a", "b", "e", "h", "l", "p", "t">>
Ord(c) == CHOOSE i \in DOMAIN Alphabet : Alphabet[i] = c

\* strings.Compare: the lexical order of the bytes.
RECURSIVE StringsCompare(_, _)
StringsCompare(a, b) ==
    IF a = <<>> /\ b = <<>> THEN 0
    ELSE IF a = <<>> THEN 0 - 1
    ELSE IF b = <<>> THEN 1
    ELSE IF Ord(Head(a)) < Ord(Head(b)) THEN 0 - 1
    ELSE IF Ord(Head(a)) > Ord(Head(b)) THEN 1
    ELSE StringsCompare(Tail(a), Tail(b))

\* Compare that takes the version without tag for the smaller one.
Compare_ReleaseFirst(v, other) ==
    IF v.Major # other.Major THEN (IF v.Major > other.Major THEN 1 ELSE 0 - 1)
    ELSE IF v.Minor # other.Minor THEN (IF v.Minor > other.Minor THEN 1 ELSE 0 - 1)
    ELSE IF v.Patch # other.Patch THEN (IF v.Patch > other.Patch THEN 1 ELSE 0 - 1)
    ELSE StringsCompare(v.PreRelease, other.PreRelease)

\* SemVer.Compare
Compare(v, other) ==
    IF v.Major # other.Major THEN (IF v.Major > other.Major THEN 1 ELSE 0 - 1)
    ELSE IF v.Minor # other.Minor THEN (IF v.Minor > other.Minor THEN 1 ELSE 0 - 1)
    ELSE IF v.Patch # other.Patch THEN (IF v.Patch > other.Patch THEN 1 ELSE 0 - 1)
    ELSE IF v.PreRelease = NoPre /\ other.PreRelease # NoPre THEN 1
    ELSE IF v.PreRelease # NoPre /\ other.PreRelease = NoPre THEN 0 - 1
    ELSE IF v.PreRelease # NoPre /\ other.PreRelease # NoPre
         THEN StringsCompare(v.PreRelease, other.PreRelease)
    ELSE 0

VersionString(v) ==
    IF v.PreRelease # NoPre THEN <<v.Major, v.Minor, v.Patch, "-", v.PreRelease>>
    ELSE <<v.Major, v.Minor, v.Patch>>

\* ------------------------------------------------------------- integrity
\* The bytes served for a tarball URL: the published archive, or damaged bytes.
Genuine(url) == [of |-> url, bytes |-> "published"]
Damaged(url) == [of |-> url, bytes |-> "damaged"]
Truncated(url) == [of |-> url, bytes |-> "truncated"]

\* integrityChecker.GetSha512 over the hashed bytes (the hash is injective here).
GetSha512(bytes) == <<"sha512-", bytes>>

\* ------------------------------------------------------ upstream registry
NpmPackage(name, version, date, deps, peers) ==
    [Name |-> name, Version |-> version, ReleaseDate |-> date,
     Dependencies |-> deps, PeerDeps |-> peers,
     Integrity |-> GetSha512(Genuine(<<name, VersionString(version)>>)),
     Url |-> <<name, VersionString(version)>>]

\* The documents the registry serves (DecodeNpmPackages of each): A and B
\* depend on each other; C names an empty dependency and one padded with a
\* space; foo publishes stable and pre-release versions.
RegistryNames == {"A", "B", "C", "foo"}
Registry(name) ==
    CASE name = "A" -> {NpmPackage("A", SemVer(1, 0, 0, NoPre), 4, {"B"}, {})}
      [] name = "B" -> {NpmPackage("B", SemVer(1, 0, 0, NoPre), 2, {}, {"A"})}
      [] name = "C" -> {NpmPackage("C", SemVer(1, 0, 0, NoPre), 3, {"", " B"}, {}),
                        NpmPackage("", SemVer(1, 0, 1, NoPre), 3, {}, {})}
      [] name = "foo" -> {NpmPackage("foo", SemVer(1, 0, 0, NoPre), 1, {}, {}),
                          NpmPackage("foo", SemVer(1, 1, 0, alpha), 2, {}, {}),
                          NpmPackage("foo", SemVer(1, 1, 0, beta), 3, {}, {}),
                          NpmPackage("foo", SemVer(1, 2, 0, NoPre), 4, {}, {})}
      [] OTHER -> {}

AllVersions == UNION {Registry(n) : n \in RegistryNames}

\* --------------------------------------------------------------- the state
VARIABLES
    packageList,     \* the seed strings given to DownloadPackages
    options,         \* DownloadPackagesOptions
    maxRuns,         \* how many times the operator runs the tool
    maxDownloadRetries, \* the field of that name of the two worker pools
    capacity,        \* capacity of the two channels DownloadPackages makes
    stateFile,       \* the state file on disk: NoStateFile or header + lines
    disk,            \* tarball files: path -> bytes
    metaDisk,        \* package.json files: name -> [writers, content, closedIn]
    clock,           \* wall clock
    runNo,           \* number of the current run
    enginePc,        \* position of the engine controller
    seedQ,           \* retrievePackages not yet sent by the engine
    startingDate,    \* npmDownloadService.startingDate
    cancelled,       \* ctx.Done() is closed
    metadataChan,    \* buffered channel of RetrievePackage
    downloadChan,    \* buffered channel of NpmPackage
    metaClosed,      \* close(metadataChan) was called
    dlClosed,        \* close(downloadChan) was called
    states,          \* localNpmState.states
    lastSync,        \* localNpmState.lastSync
    analysedCount,   \* localNpmState.analysedCount
    downloadedCount, \* localNpmState.downloadedCount
    compared,        \* two or three versions given to SemVer.Compare and its results
    mw,              \* metadata workers: id -> local state
    tw,              \* tarball workers: id -> local state
    loaded,          \* history: fingerprints loaded from the state file, per run
    needSeen,        \* history: bag of <<run, fingerprint>> seen needing analysis
    sent,            \* history: bag of download tasks put on downloadChan
    enq,             \* history: bag of <<run, fingerprint>> put on metadataChan
    taken,           \* history: bag of download tasks dequeued by tarball workers
    rets,            \* history: bag of returns of retrieveMetadata
    gaveUp,          \* history: bag of download tasks whose every attempt failed
    saves,           \* history: the state files written, in order
    cancelledIn,     \* history: the runs whose context was cancelled
    tarRets,         \* history: bag of returns of downloadTarball
    seeded           \* history: fingerprints the engine put on metadataChan this run

world == <<packageList, options, maxRuns, maxDownloadRetries, capacity, stateFile, disk, metaDisk, clock,
          compared>>
engine == <<runNo, enginePc, seedQ, startingDate, cancelled>>
chans == <<metadataChan, downloadChan, metaClosed, dlClosed>>
crawl == <<states, lastSync, analysedCount, downloadedCount>>
hist == <<loaded, needSeen, sent, enq, taken, rets, gaveUp, saves, cancelledIn, tarRets, seeded>>
vars == <<world, engine, chans, crawl, mw, tw, hist>>

MetaIds == 1..MaxMetadataWorkers
TarIds == 1..MaxTarballWorkers

\* The state file: whether it exists, what its first line is ("ok": the
\* prefix "Last sync: " and an RFC3339 date; "none": the file has no line at
\* all; "badPrefix"; "badDate"), the date of the header and the other lines.
NoStateFile == [exists |-> FALSE, header |-> "none", lastSync |-> ZeroTime, lines |-> {}]
StateFileOf(fingerprints, t) ==
    [exists |-> TRUE, header |-> "ok", lastSync |-> t, lines |-> fingerprints]
EmptyStateFile == [exists |-> TRUE, header |-> "none", lastSync |-> ZeroTime, lines |-> {}]
CorruptStateFile(header, fingerprints) ==
    [exists |-> TRUE, header |-> header, lastSync |-> ZeroTime, lines |-> fingerprints]

\* time.Time.Format(time.RFC3339) followed by time.Parse: the sub-second part
\* is dropped.
RFC3339(t) == t - (t % TicksPerSecond)

\* strings.TrimSpace on the names used here.
TrimSpace(str) == IF str = " B" THEN "B" ELSE str

\* strings.TrimSpace on a line of the state file: the white space before the
\* name and after the last part goes (no pattern used here ends in a space).
TrimLine(line) == [line EXCEPT ![1] = TrimSpace(@)]

NoPackage == NewRetrievePackage(<<"">>)
NoNpmPackage == NpmPackage("", SemVer(0, 0, 0, NoPre), ZeroTime, {}, {})

\* workerInactivityTime: ten seconds.
workerInactivityTime == 10 * TicksPerSecond

\* A time.Timer: expired once its duration has passed, pending while the value
\* it sent is still in timer.C.
NewTimer == [expired |-> FALSE, pending |-> FALSE]
Fired == [expired |-> TRUE, pending |-> TRUE]

\* timer.Stop(): true when the call stops a timer that has not expired.
Stop(timer) == ~timer.expired

\* timer.Reset(inactivityTime) without draining timer.C first.
ResetTimer_NoDrain(timer) ==
    [timer EXCEPT !.expired = FALSE]

\* if !timer.Stop() { <-timer.C }; timer.Reset(inactivityTime)
ResetTimer(timer) ==
    [expired |-> FALSE, pending |-> IF ~Stop(timer) THEN FALSE ELSE timer.pending]

\* The worker at the end of an item: a timer that has expired and whose value
\* is no longer in timer.C blocks the worker in <-timer.C; otherwise the timer
\* is reset and the worker is back at its select.
AfterReset(sel, timer) ==
    IF ~Stop(timer) /\ ~timer.pending
    THEN [sel EXCEPT !.pc = "drain", !.timer = timer]
    ELSE [sel EXCEPT !.timer = ResetTimer(timer)]

\* The timer of a worker when the item it took has been processed: it has
\* expired when the processing lasted longer than the inactivity window,
\* which the backoff alone can make it do.
Elapsed(slept, long) == IF long \/ slept >= workerInactivityTime THEN Fired ELSE NewTimer

mwOff == [pc |-> "off", pkg |-> NoPackage, attempt |-> 0, slept |-> 0, ls |-> ZeroTime, sel |-> {},
          todo |-> {}, deps |-> {}, peers |-> {}, dep |-> NoPackage, timer |-> NewTimer]
twOff == [pc |-> "off", pkg |-> NoNpmPackage, attempt |-> 0, slept |-> 0, timer |-> NewTimer]

\* The backoffFactor field of the two worker pools: one second.
backoffFactor == TicksPerSecond

\* A backoff that waits the same time after every failed attempt.
Sleep_Constant(slept, attempt) ==
    slept + backoffFactor

\* time.Sleep(time.Duration(attempt) * backoffFactor), added to the time the
\* call has already spent in backoff.
Sleep(slept, attempt) ==
    slept + attempt * backoffFactor

Add(bag, e) == bag (+) SetToBag({e})

\* ------------------------------------------------------------ local store
\* LoadDownloadedPackagesState that takes a file without a header line for an
\* error.
LoadDownloadedPackagesState_HeaderMandatory(file) ==
    IF ~file.exists THEN [packages |-> {}, lastSync |-> ZeroTime, err |-> FALSE]
    ELSE IF file.header # "ok"
    THEN [packages |-> {}, lastSync |-> ZeroTime, err |-> TRUE]
    ELSE [packages |-> {NewRetrievePackage(TrimLine(line)) :
                          line \in {l \in file.lines : TrimLine(l) # <<"">>}},
          lastSync |-> file.lastSync,
          err |-> FALSE]

\* LoadDownloadedPackagesState: an absent file is an empty state; the first
\* line must carry the prefix and a date, an empty file has the zero date;
\* the lines that are not blank once trimmed become descriptors.
LoadDownloadedPackagesState(file) ==
    IF ~file.exists THEN [packages |-> {}, lastSync |-> ZeroTime, err |-> FALSE]
    ELSE IF file.header \in {"badPrefix", "badDate"}
    THEN [packages |-> {}, lastSync |-> ZeroTime, err |-> TRUE]
    ELSE [packages |-> {NewRetrievePackage(TrimLine(line)) :
                          line \in {l \in file.lines : TrimLine(l) # <<"">>}},
          lastSync |-> IF file.header = "none" THEN ZeroTime ELSE file.lastSync,
          err |-> FALSE]

\* SaveDownloadedPackagesState that writes the package names without their
\* pre-release expressions.
SaveDownloadedPackagesState_NameOnly(packages, t) ==
    StateFileOf({<<pkg.Name>> : pkg \in packages}, RFC3339(t))

\* SaveDownloadedPackagesState: the header and one fingerprint per line.
SaveDownloadedPackagesState(packages, t) ==
    StateFileOf({String(pkg) : pkg \in packages}, RFC3339(t))

TarballPath(packageName, version) == <<packageName, version>>

\* ------------------------------------------------------------ crawl state
NewLocalNpmState(packages) ==
    [fp \in {String(pkg) : pkg \in packages} |-> PreviouslyInLocalRepoState]

\* d.states[pkg.String()] = state
SetState(st, pkg, state) ==
    (String(pkg) :> state) @@ st

\* GetLastSync that forgets the loaded sync date.
GetLastSync_AlwaysZero(pkg) == ZeroTime

GetLastSync(pkg) ==
    IF String(pkg) \notin DOMAIN states THEN ZeroTime ELSE lastSync

\* GetPackages that returns only the descriptors analysed in this run.
GetPackages_OnlyAnalysed ==
    {NewRetrievePackage(fp) : fp \in {k \in DOMAIN states : states[k] = AnalysedState}}

GetPackages ==
    {NewRetrievePackage(fp) : fp \in DOMAIN states}

\* IsAnalysisNeeded that is false as soon as the analysis has started.
IsAnalysisNeeded_UnlessStarted(pkg) ==
    String(pkg) \notin DOMAIN states \/ states[String(pkg)] = PreviouslyInLocalRepoState

IsAnalysisNeeded(pkg) ==
    String(pkg) \notin DOMAIN states \/ states[String(pkg)] # AnalysedState

\* IsAnalysisStarted that takes a descriptor missing from the map for started.
IsAnalysisStarted_UnknownIsStarted(pkg) ==
    String(pkg) \notin DOMAIN states \/ states[String(pkg)] # PreviouslyInLocalRepoState

IsAnalysisStarted(pkg) ==
    String(pkg) \in DOMAIN states /\ states[String(pkg)] # PreviouslyInLocalRepoState

\* ----------------------------------------------------------- the filter
\* filterPackages that compares the release date with !Before instead of After.
filterPackages_NotBefore(npmPackages, retrievePkg) ==
    LET lastSyncDate == GetLastSync(retrievePkg)
    IN {npmPkg \in npmPackages :
          /\ ~(IsPreRelease(npmPkg.Version)
               /\ ~IsMatchingPreRelease(retrievePkg, npmPkg.Version.PreRelease))
          /\ npmPkg.ReleaseDate >= lastSyncDate}

filterPackages(npmPackages, retrievePkg) ==
    LET lastSyncDate == GetLastSync(retrievePkg)
    IN {npmPkg \in npmPackages :
          /\ ~(IsPreRelease(npmPkg.Version)
               /\ ~IsMatchingPreRelease(retrievePkg, npmPkg.Version.PreRelease))
          /\ npmPkg.ReleaseDate > lastSyncDate}

\* ------------------------------------------------------------- the inputs
Orderings(S) ==
    {q \in [1..Cardinality(S) -> S] : \A i, j \in 1..Cardinality(S) : q[i] = q[j] => i = j}

Options(m, d, u) ==
    [MetadataWorkers |-> m, DownloadWorkers |-> d, UpdateLocalRepository |-> u]

InitState(seeds, opts, file, runs, attempts, cap, versions) ==
    /\ packageList = seeds
    /\ compared = versions
    /\ capacity = cap
    /\ maxDownloadRetries = attempts
    /\ options = opts
    /\ maxRuns = runs
    /\ stateFile = file
    /\ disk = <<>>
    /\ metaDisk = <<>>
    /\ clock = FirstRunStart
    /\ runNo = 0
    /\ enginePc = "idle"
    /\ seedQ = <<>>
    /\ startingDate = ZeroTime
    /\ cancelled = FALSE
    /\ metadataChan = <<>>
    /\ downloadChan = <<>>
    /\ metaClosed = FALSE
    /\ dlClosed = FALSE
    /\ states = <<>>
    /\ lastSync = ZeroTime
    /\ analysedCount = 0
    /\ downloadedCount = 0
    /\ mw = [w \in MetaIds |-> mwOff]
    /\ tw = [t \in TarIds |-> twOff]
    /\ loaded = <<>>
    /\ needSeen = EmptyBag
    /\ sent = EmptyBag
    /\ enq = EmptyBag
    /\ taken = EmptyBag
    /\ rets = EmptyBag
    /\ gaveUp = EmptyBag
    /\ saves = <<>>
    /\ cancelledIn = {}
    /\ tarRets = EmptyBag
    /\ seeded = <<>>

InitWithCapacity(seeds, opts, file, runs, attempts, cap) ==
    InitState(seeds, opts, file, runs, attempts, cap, <<>>)

InitWith(seeds, opts, file, runs, attempts) ==
    InitWithCapacity(seeds, opts, file, runs, attempts, channelBufferSize)

\* One run with concurrent metadata workers: the seed A (A and B depend on
\* each other) on an empty mirror or on a mirror that knows A, and the seed
\* foo|alpha on an empty mirror or on one that knows it, the seed foo on an
\* empty mirror or with a state file that is empty or corrupt, and the seeds
\* foo|alpha and foo|beta together (analysis only, no tarball worker).
\* The concurrent configurations give every fetch and download one attempt;
\* the single-worker ones give Retries attempts.
Init ==
    \/ \E u \in BOOLEAN, file \in {NoStateFile, StateFileOf({<<"A">>}, RFC3339(3))} :
         /\ u => file.exists
         /\ InitWith(<<<<"A">>>>, Options(MaxMetadataWorkers, 1, u), file, 1, 1)
    \/ \E file \in {NoStateFile, StateFileOf({<<"foo", alpha>>}, RFC3339(2))} :
         InitWith(<<<<"foo", alpha>>>>, Options(1, 1, FALSE), file, 1, Retries)
    \/ \E file \in {NoStateFile, EmptyStateFile,
                     CorruptStateFile("badPrefix", {<<"foo">>}),
                     CorruptStateFile("badDate", {<<"foo">>})} :
         InitWith(<<<<"foo">>>>, Options(1, 1, FALSE), file, 1, Retries)
    \/ InitWith(<<<<"foo", alpha>>, <<"foo", beta>>>>,
                Options(1, 0, FALSE), NoStateFile, 1, 1)
    \/ InitWith(<<<<"C">>>>, Options(1, 0, FALSE), NoStateFile, 1, 1)

\* The tool run MaxRuns times in sequence on the seed A or on the seed C, one
\* worker per pool.
InitRuns ==
    \E seed \in {<<"A">>, <<"C">>} :
        InitWith(<<seed>>, Options(1, 1, FALSE), NoStateFile, MaxRuns, maxRetries)

\* One run, one worker per pool, with channels of the capacity of the code
\* or with channels that a few sends fill.
InitFair ==
    \E seed \in {<<"A">>, <<"C">>, <<"foo", alpha>>},
       cap \in {SmallCapacity, channelBufferSize} :
        InitWithCapacity(<<seed>>, Options(1, 1, FALSE), NoStateFile, 1, Retries, cap)

\* ------------------------------------------------------ engine controller
\* A constructor whose caller goes on when the state file did not load.
AfterLoad_GoesOn(err) ==
    "start"

\* Where the run goes after the load: on to DownloadPackages proper, or into
\* the nil dereference at its first use of the receiver.
AfterLoad(err) ==
    IF err THEN "crashed" ELSE "start"

\* NewNpmDownloadService; when the state file does not load it returns nil and
\* DownloadPackages, called on the nil service, panics at its first use of
\* the receiver, before it starts any worker.
NewNpmDownloadService ==
    /\ enginePc \in {"idle", "crashed"}
    /\ runNo < maxRuns
    /\ LET st == LoadDownloadedPackagesState(stateFile)
       IN /\ states' = NewLocalNpmState(st.packages)
          /\ lastSync' = st.lastSync
          /\ loaded' = Append(loaded, {String(pkg) : pkg \in st.packages})
          /\ enginePc' = AfterLoad(st.err)
          /\ startingDate' = IF st.err THEN ZeroTime ELSE clock
    /\ analysedCount' = 0
    /\ downloadedCount' = 0
    /\ runNo' = runNo + 1
    /\ seeded' = <<>>
    /\ cancelled' = FALSE
    /\ metadataChan' = <<>>
    /\ downloadChan' = <<>>
    /\ metaClosed' = FALSE
    /\ dlClosed' = FALSE
    /\ seedQ' = <<>>
    /\ mw' = [w \in MetaIds |-> mwOff]
    /\ tw' = [t \in TarIds |-> twOff]
    /\ UNCHANGED <<world, needSeen, sent, enq, taken, rets, gaveUp, saves, cancelledIn, tarRets>>

\* DownloadPackages that appends the descriptors of the state file whatever
\* the option says.
StartWorkers_AlwaysRefresh ==
    /\ enginePc = "start"
    /\ \E fromState \in Orderings(GetPackages) :
         LET retrievePackages ==
                 [i \in 1..Len(packageList) |-> NewRetrievePackage(packageList[i])]
                 \o fromState
         IN /\ seedQ' = retrievePackages
            /\ enginePc' = IF retrievePackages = <<>> THEN "waitMeta" ELSE "seed"
    /\ mw' = [w \in MetaIds |->
                IF w <= options.MetadataWorkers THEN [mwOff EXCEPT !.pc = "select"] ELSE mwOff]
    /\ tw' = [t \in TarIds |->
                IF t <= options.DownloadWorkers THEN [twOff EXCEPT !.pc = "select"] ELSE twOff]
    /\ UNCHANGED <<world, runNo, startingDate, cancelled, chans, crawl, hist>>

\* DownloadPackages up to the start of the workers.
StartWorkers ==
    /\ enginePc = "start"
    /\ \E fromState \in (IF options.UpdateLocalRepository
                          THEN Orderings(GetPackages) ELSE {<<>>}) :
         LET retrievePackages ==
                 [i \in 1..Len(packageList) |-> NewRetrievePackage(packageList[i])]
                 \o fromState
         IN /\ seedQ' = retrievePackages
            /\ enginePc' = IF retrievePackages = <<>> THEN "waitMeta" ELSE "seed"
    /\ mw' = [w \in MetaIds |->
                IF w <= options.MetadataWorkers THEN [mwOff EXCEPT !.pc = "select"] ELSE mwOff]
    /\ tw' = [t \in TarIds |->
                IF t <= options.DownloadWorkers THEN [twOff EXCEPT !.pc = "select"] ELSE twOff]
    /\ UNCHANGED <<world, runNo, startingDate, cancelled, chans, crawl, hist>>

\* metadataChan <- pkg for the next seed.
EnqueueSeed ==
    /\ enginePc = "seed"
    /\ Len(metadataChan) < capacity
    /\ metadataChan' = Append(metadataChan, Head(seedQ))
    /\ enq' = Add(enq, <<runNo, String(Head(seedQ))>>)
    /\ seeded' = Append(seeded, String(Head(seedQ)))
    /\ seedQ' = Tail(seedQ)
    /\ enginePc' = IF Tail(seedQ) = <<>> THEN "waitMeta" ELSE "seed"
    /\ UNCHANGED <<world, runNo, startingDate, cancelled, downloadChan, metaClosed,
                   dlClosed, crawl, mw, tw, loaded, needSeen, sent, taken, rets, gaveUp, saves, cancelledIn, tarRets>>

\* close(metadataChan) without waiting for the metadata workers.
CloseMetadataChan_NoWait ==
    /\ enginePc = "waitMeta"
    /\ metaClosed' = TRUE
    /\ enginePc' = "waitTar"
    /\ UNCHANGED <<world, runNo, seedQ, startingDate, cancelled, metadataChan,
                   downloadChan, dlClosed, crawl, mw, tw, hist>>

\* metadataWorkerPool.WaitAllWorkers returns; close(metadataChan).
CloseMetadataChan ==
    /\ enginePc = "waitMeta"
    /\ \A w \in MetaIds : mw[w].pc \in {"off", "done"}
    /\ metaClosed' = TRUE
    /\ enginePc' = "waitTar"
    /\ UNCHANGED <<world, runNo, seedQ, startingDate, cancelled, metadataChan,
                   downloadChan, dlClosed, crawl, mw, tw, hist>>

\* tarballWorkerPool.WaitAllWorkers returns; close(downloadChan).
CloseDownloadChan ==
    /\ enginePc = "waitTar"
    /\ \A t \in TarIds : tw[t].pc \in {"off", "done"}
    /\ dlClosed' = TRUE
    /\ enginePc' = "save"
    /\ UNCHANGED <<world, runNo, seedQ, startingDate, cancelled, metadataChan,
                   downloadChan, metaClosed, crawl, mw, tw, hist>>

\* SaveDownloadedPackagesState(GetPackages(), startingDate); the process ends
\* and time passes before the next run.
SaveState ==
    /\ enginePc = "save"
    /\ stateFile' = SaveDownloadedPackagesState(GetPackages, startingDate)
    /\ saves' = Append(saves, stateFile')
    /\ clock' = clock + 1
    /\ enginePc' = "idle"
    /\ UNCHANGED <<packageList, options, maxRuns, maxDownloadRetries, capacity, compared, disk, metaDisk, runNo, seedQ,
                   startingDate, cancelled, chans, crawl, mw, tw,
                   loaded, needSeen, sent, enq, taken, rets, gaveUp, cancelledIn, tarRets, seeded>>

\* The context of the run is cancelled.
Cancel ==
    /\ enginePc \in {"seed", "waitMeta", "waitTar"}
    /\ ~cancelled
    /\ cancelled' = TRUE
    /\ cancelledIn' = cancelledIn \cup {runNo}
    /\ UNCHANGED <<world, runNo, enginePc, seedQ, startingDate, chans, crawl, mw, tw,
                   loaded, needSeen, sent, enq, taken, rets, gaveUp, saves, tarRets, seeded>>

\* ------------------------------------------------------- metadata workers
NotInMap == 0 - 1
StateOf(fp) == IF fp \in DOMAIN states THEN states[fp] ELSE NotInMap

\* Back in the select of StartWorker with a re-armed inactivity timer.
mwSelect == [mwOff EXCEPT !.pc = "select"]

\* The worker has logged an error of retrieveMetadata.
mwAfterError_Exits(slept, long) ==
    [mwOff EXCEPT !.pc = "done"]

\* The worker after retrieveMetadata returned an error: the error is logged,
\* the timer is reset and the loop goes back to the select.
mwAfterError(slept, long) ==
    AfterReset(mwSelect, Elapsed(slept, long))

\* The worker after retrieveMetadata returned nil.
mwAfterItem(slept, long) ==
    AfterReset(mwSelect, Elapsed(slept, long))

\* if pkg.Name == "" { continue } that lets the empty name through.
IsSkipped_Never(name) ==
    FALSE

\* if pkg.Name == "" { continue }
IsSkipped(name) ==
    name = ""

\* What retrieveMetadata does after a dependency, or after a version.
NextPc(deps, peers, todo) ==
    IF deps \cup peers # {} THEN "depCheck"
    ELSE IF todo # {} THEN "send" ELSE "setAnalysed"

MetaFile(name) ==
    IF name \in DOMAIN metaDisk THEN metaDisk[name]
    ELSE [writers |-> 0, content |-> "none", closedIn |-> 0]

\* fs.Create truncates package.json and hands out one more open handle.
CreateFile(file) ==
    [file EXCEPT !.writers = @ + 1, !.content = "partial"]

\* The tee reader is closed only when retrieveMetadata returns: the file is
\* still open while the versions are sent and the state is set.
CloseTee_Deferred(file, complete) ==
    file

\* teeReader.Close() after the decode: the handle is released; after a
\* successful decode the whole document has passed through the tee. closedIn
\* remembers the last run in which the complete document was closed.
CloseTee(file, complete) ==
    IF complete THEN [writers |-> file.writers - 1, content |-> "complete", closedIn |-> runNo]
    ELSE [file EXCEPT !.writers = @ - 1, !.content = "partial"]


\* case pkg, ok := <-analyzeChan
MetaReceive(w) ==
    /\ mw[w].pc = "select"
    /\ \/ /\ metadataChan # <<>>
          /\ metadataChan' = Tail(metadataChan)
          /\ mw' = [mw EXCEPT ![w] =
                      IF IsSkipped(Head(metadataChan).Name) THEN mw[w]
                      ELSE [mw[w] EXCEPT !.pc = "check", !.pkg = Head(metadataChan)]]
       \/ /\ metadataChan = <<>>
          /\ metaClosed
          /\ mw' = [mw EXCEPT ![w] = [mwOff EXCEPT !.pc = "done"]]
          /\ UNCHANGED metadataChan
    /\ UNCHANGED <<world, engine, downloadChan, metaClosed, dlClosed, crawl, tw, hist>>

\* case <-ctx.Done()
MetaCancelled(w) ==
    /\ mw[w].pc = "select"
    /\ cancelled
    /\ mw' = [mw EXCEPT ![w] = [mwOff EXCEPT !.pc = "done"]]
    /\ UNCHANGED <<world, engine, chans, crawl, tw, hist>>

\* case <-timer.C: nothing arrived during the inactivity window.
MetaInactive(w) ==
    /\ mw[w].pc = "select"
    /\ mw[w].timer.pending \/ (metadataChan = <<>> /\ ~metaClosed)
    /\ mw' = [mw EXCEPT ![w] = [mwOff EXCEPT !.pc = "done"]]
    /\ UNCHANGED <<world, engine, chans, crawl, tw, hist>>

\* retrieveMetadata: the IsAnalysisNeeded test.
CheckAnalysisNeeded(w) ==
    /\ mw[w].pc = "check"
    /\ IF IsAnalysisNeeded(mw[w].pkg)
       THEN /\ mw' = [mw EXCEPT ![w].pc = "fetch", ![w].attempt = 1]
            /\ needSeen' = Add(needSeen, <<runNo, String(mw[w].pkg)>>)
            /\ rets' = rets
       ELSE /\ \E long \in BOOLEAN : mw' = [mw EXCEPT ![w] = mwAfterItem(mw[w].slept, long)]
            /\ rets' = Add(rets, [run |-> runNo, fp |-> String(mw[w].pkg), res |-> "skip",
                                  st |-> StateOf(String(mw[w].pkg)),
                                  ls |-> ZeroTime, sel |-> {}])
            /\ needSeen' = needSeen
    /\ UNCHANGED <<world, engine, chans, crawl, tw, loaded, sent, enq, taken, gaveUp, saves, cancelledIn, tarRets, seeded>>

\* A retry that repeats the step that failed instead of starting again from
\* the fetch.
MetaAttemptFailed_RetriesStep(w) ==
    IF mw[w].attempt < maxDownloadRetries
    THEN /\ mw' = [mw EXCEPT ![w].attempt = @ + 1,
                             ![w].slept = Sleep(@, mw[w].attempt)]
         /\ rets' = rets
    ELSE /\ \E long \in BOOLEAN :
              mw' = [mw EXCEPT ![w] = mwAfterError(Sleep(mw[w].slept, mw[w].attempt), long)]
         /\ rets' = Add(rets, [run |-> runNo, fp |-> String(mw[w].pkg), res |-> "err",
                               st |-> StateOf(String(mw[w].pkg)),
                               ls |-> ZeroTime, sel |-> {}])

\* The end of a failed attempt of fetchMetadata: back off and try again, or
\* give up after maxDownloadRetries attempts and return the error.
MetaAttemptFailed(w) ==
    IF mw[w].attempt < maxDownloadRetries
    THEN /\ mw' = [mw EXCEPT ![w].pc = "fetch", ![w].attempt = @ + 1,
                             ![w].slept = Sleep(@, mw[w].attempt)]
         /\ rets' = rets
    ELSE /\ \E long \in BOOLEAN :
              mw' = [mw EXCEPT ![w] = mwAfterError(Sleep(mw[w].slept, mw[w].attempt), long)]
         /\ rets' = Add(rets, [run |-> runNo, fp |-> String(mw[w].pkg), res |-> "err",
                               st |-> StateOf(String(mw[w].pkg)),
                               ls |-> ZeroTime, sel |-> {}])

\* FetchMetadata and WritePackageJSON succeed: the file is created and open.
FetchMetadataOk(w) ==
    /\ mw[w].pc = "fetch"
    /\ ~cancelled
    /\ mw[w].pkg.Name \in RegistryNames
    /\ metaDisk' = (mw[w].pkg.Name :> CreateFile(MetaFile(mw[w].pkg.Name))) @@ metaDisk
    /\ mw' = [mw EXCEPT ![w].pc = "decode"]
    /\ UNCHANGED <<packageList, options, maxRuns, maxDownloadRetries, capacity, compared, stateFile, disk, clock,
                   engine, chans, crawl, tw, hist>>

\* FetchMetadata or WritePackageJSON returns an error.
FetchMetadataFail(w) ==
    /\ mw[w].pc = "fetch"
    /\ MetaAttemptFailed(w)
    /\ UNCHANGED <<packageList, options, maxRuns, maxDownloadRetries, capacity, compared, stateFile, disk, metaDisk, clock,
                   engine, chans, crawl, tw, loaded, needSeen, sent, enq, taken, gaveUp, saves, cancelledIn, tarRets, seeded>>

\* DecodeNpmPackages succeeds and the tee reader is closed; filterPackages
\* selects the versions to download.
DecodeOk(w) ==
    /\ mw[w].pc = "decode"
    /\ LET pkg == mw[w].pkg
           filteredPackages == filterPackages(Registry(pkg.Name), pkg)
       IN mw' = [mw EXCEPT ![w].pc = NextPc({}, {}, filteredPackages),
                           ![w].ls = GetLastSync(pkg),
                           ![w].sel = filteredPackages,
                           ![w].todo = filteredPackages]
    /\ metaDisk' = [metaDisk EXCEPT ![mw[w].pkg.Name] = CloseTee(@, TRUE)]
    /\ UNCHANGED <<packageList, options, maxRuns, maxDownloadRetries, capacity, compared, stateFile, disk, clock,
                   engine, chans, crawl, tw, hist>>

\* DecodeNpmPackages returns an error (bad document, unknown package, broken stream).
DecodeFail(w) ==
    /\ mw[w].pc = "decode"
    /\ metaDisk' = [metaDisk EXCEPT ![mw[w].pkg.Name] = CloseTee(@, FALSE)]
    /\ MetaAttemptFailed(w)
    /\ UNCHANGED <<packageList, options, maxRuns, maxDownloadRetries, capacity, compared, stateFile, disk, clock,
                   engine, chans, crawl, tw, loaded, needSeen, sent, enq, taken, gaveUp, saves, cancelledIn, tarRets, seeded>>

\* downloadChan <- pkg for one of the selected versions.
SendDownload(w) ==
    /\ mw[w].pc = "send"
    /\ Len(downloadChan) < capacity
    /\ \E v \in mw[w].todo :
         /\ downloadChan' = Append(downloadChan, v)
         /\ sent' = Add(sent, [run |-> runNo, d |-> String(mw[w].pkg), v |-> v,
                               ls |-> mw[w].ls])
         /\ mw' = [mw EXCEPT ![w].todo = @ \ {v},
                             ![w].deps = v.Dependencies,
                             ![w].peers = v.PeerDeps,
                             ![w].pc = NextPc(v.Dependencies, v.PeerDeps, mw[w].todo \ {v})]
    /\ UNCHANGED <<world, engine, metadataChan, metaClosed, dlClosed, crawl, tw,
                   loaded, needSeen, enq, taken, rets, gaveUp, saves, cancelledIn, tarRets, seeded>>

\* The IsAnalysisStarted test for the next dependency, then peer dependency.
CheckAnalysisStarted(w) ==
    /\ mw[w].pc = "depCheck"
    /\ \E dep \in (IF mw[w].deps # {} THEN mw[w].deps ELSE mw[w].peers) :
         LET depPkg == NewRetrievePackage(<<dep>>)
             deps == mw[w].deps \ {dep}
             peers == IF mw[w].deps # {} THEN mw[w].peers ELSE mw[w].peers \ {dep}
         IN mw' = [mw EXCEPT ![w].deps = deps,
                             ![w].peers = peers,
                             ![w].dep = IF ~IsAnalysisStarted(depPkg) THEN depPkg ELSE NoPackage,
                             ![w].pc = IF ~IsAnalysisStarted(depPkg) THEN "depSet"
                                       ELSE NextPc(deps, peers, mw[w].todo)]
    /\ UNCHANGED <<world, engine, chans, crawl, tw, hist>>

\* SetState(depPkg, AnalysingState)
MarkAnalysing(w) ==
    /\ mw[w].pc = "depSet"
    /\ states' = SetState(states, mw[w].dep, AnalysingState)
    /\ mw' = [mw EXCEPT ![w].pc = "depSend"]
    /\ UNCHANGED <<world, engine, chans, lastSync, analysedCount, downloadedCount, tw, hist>>

\* analyzeChan <- depPkg
SendDependency(w) ==
    /\ mw[w].pc = "depSend"
    /\ Len(metadataChan) < capacity
    /\ metadataChan' = Append(metadataChan, mw[w].dep)
    /\ enq' = Add(enq, <<runNo, String(mw[w].dep)>>)
    /\ mw' = [mw EXCEPT ![w].dep = NoPackage,
                        ![w].pc = NextPc(mw[w].deps, mw[w].peers, mw[w].todo)]
    /\ UNCHANGED <<world, engine, downloadChan, metaClosed, dlClosed, crawl, tw,
                   loaded, needSeen, sent, taken, rets, gaveUp, saves, cancelledIn, tarRets, seeded>>

\* SetState(pkg, AnalysedState)
MarkAnalysed(w) ==
    /\ mw[w].pc = "setAnalysed"
    /\ states' = SetState(states, mw[w].pkg, AnalysedState)
    /\ mw' = [mw EXCEPT ![w].pc = "incr"]
    /\ UNCHANGED <<world, engine, chans, lastSync, analysedCount, downloadedCount, tw, hist>>

\* IncrementAnalysedCount() and return nil.
IncrementAnalysedCount(w) ==
    /\ mw[w].pc = "incr"
    /\ analysedCount' = analysedCount + 1
    /\ rets' = Add(rets, [run |-> runNo, fp |-> String(mw[w].pkg), res |-> "ok",
                          st |-> StateOf(String(mw[w].pkg)),
                          ls |-> mw[w].ls, sel |-> mw[w].sel])
    /\ \E long \in BOOLEAN : mw' = [mw EXCEPT ![w] = mwAfterItem(mw[w].slept, long)]
    /\ UNCHANGED <<world, engine, chans, states, lastSync, downloadedCount, tw,
                   loaded, needSeen, sent, enq, taken, gaveUp, saves, cancelledIn, tarRets, seeded>>

\* -------------------------------------------------------- tarball workers
twSelect == [twOff EXCEPT !.pc = "select"]

\* The worker after downloadTarball returned, with an error or without: the
\* timer is reset and the loop goes back to the select.
twAfterItem(slept, long) ==
    AfterReset(twSelect, Elapsed(slept, long))

\* case pkg, ok := <-downloadChan
TarReceive(t) ==
    /\ tw[t].pc = "select"
    /\ \/ /\ downloadChan # <<>>
          /\ downloadChan' = Tail(downloadChan)
          /\ taken' = Add(taken, [run |-> runNo, v |-> Head(downloadChan)])
          /\ tw' = [tw EXCEPT ![t] =
                      IF IsSkipped(Head(downloadChan).Name) THEN tw[t]
                      ELSE [tw[t] EXCEPT !.pc = "dl", !.pkg = Head(downloadChan), !.attempt = 1]]
       \/ /\ downloadChan = <<>>
          /\ dlClosed
          /\ tw' = [tw EXCEPT ![t] = [twOff EXCEPT !.pc = "done"]]
          /\ UNCHANGED <<downloadChan, taken>>
    /\ UNCHANGED <<world, engine, metadataChan, metaClosed, dlClosed, crawl, mw,
                   loaded, needSeen, sent, enq, rets, gaveUp, saves, cancelledIn, tarRets, seeded>>

\* case <-ctx.Done()
TarCancelled(t) ==
    /\ tw[t].pc = "select"
    /\ cancelled
    /\ tw' = [tw EXCEPT ![t] = [twOff EXCEPT !.pc = "done"]]
    /\ UNCHANGED <<world, engine, chans, crawl, mw, hist>>

\* case <-timer.C: no task arrived during the inactivity window.
TarInactive(t) ==
    /\ tw[t].pc = "select"
    /\ tw[t].timer.pending \/ (downloadChan = <<>> /\ ~dlClosed)
    /\ tw' = [tw EXCEPT ![t] = [twOff EXCEPT !.pc = "done"]]
    /\ UNCHANGED <<world, engine, chans, crawl, mw, hist>>

\* The retry loop of downloadTarball with one attempt too many.
TarAttemptFailed_OneMore(t) ==
    IF tw[t].attempt <= maxDownloadRetries
    THEN /\ tw' = [tw EXCEPT ![t].attempt = @ + 1, ![t].slept = Sleep(@, tw[t].attempt)]
         /\ gaveUp' = gaveUp
         /\ tarRets' = tarRets
    ELSE /\ \E long \in BOOLEAN :
              tw' = [tw EXCEPT ![t] = twAfterItem(Sleep(tw[t].slept, tw[t].attempt), long)]
         /\ gaveUp' = Add(gaveUp, [run |-> runNo, v |-> tw[t].pkg])
         /\ tarRets' = Add(tarRets, [run |-> runNo, v |-> tw[t].pkg, res |-> "err",
                                     calls |-> tw[t].attempt,
                                     slept |-> Sleep(tw[t].slept, tw[t].attempt)])

\* The end of a failed attempt of downloadTarball: back off and try again, or
\* return the error after maxDownloadRetries attempts.
TarAttemptFailed(t) ==
    IF tw[t].attempt < maxDownloadRetries
    THEN /\ tw' = [tw EXCEPT ![t].attempt = @ + 1, ![t].slept = Sleep(@, tw[t].attempt)]
         /\ gaveUp' = gaveUp
         /\ tarRets' = tarRets
    ELSE /\ \E long \in BOOLEAN :
              tw' = [tw EXCEPT ![t] = twAfterItem(Sleep(tw[t].slept, tw[t].attempt), long)]
         /\ gaveUp' = Add(gaveUp, [run |-> runNo, v |-> tw[t].pkg])
         /\ tarRets' = Add(tarRets, [run |-> runNo, v |-> tw[t].pkg, res |-> "err",
                                     calls |-> tw[t].attempt,
                                     slept |-> Sleep(tw[t].slept, tw[t].attempt)])

\* DownloadTarballStream returns an error.
DownloadTarballStreamFail(t) ==
    /\ tw[t].pc = "dl"
    /\ TarAttemptFailed(t)
    /\ UNCHANGED <<world, engine, chans, crawl, mw,
                   loaded, needSeen, sent, enq, taken, rets, saves, cancelledIn, seeded>>

\* The integrity test of localNpmRepo.WriteTarball on the bytes copied.
IntegrityMatches(integrity, bytes) == integrity = GetSha512(bytes)

\* DownloadTarballStream returns the stream and WriteTarball creates the
\* file: fs.Create truncates what the path held and the file stays open.
CreateTarball(t) ==
    /\ tw[t].pc = "dl"
    /\ ~cancelled
    /\ disk' = (TarballPath(tw[t].pkg.Name, VersionString(tw[t].pkg.Version))
                 :> Truncated(tw[t].pkg.Url)) @@ disk
    /\ tw' = [tw EXCEPT ![t].pc = "write"]
    /\ UNCHANGED <<packageList, options, maxRuns, maxDownloadRetries, capacity, compared, stateFile, metaDisk, clock,
                   engine, chans, crawl, mw, hist>>

\* WriteTarball copies the whole stream into the file, then compares the
\* digests.  The stream carries the published bytes or damaged ones.
WriteTarball(t) ==
    /\ tw[t].pc = "write"
    /\ \E bytes \in {Genuine(tw[t].pkg.Url), Damaged(tw[t].pkg.Url)} :
         /\ disk' = (TarballPath(tw[t].pkg.Name, VersionString(tw[t].pkg.Version)) :> bytes)
                    @@ disk
         /\ IF IntegrityMatches(tw[t].pkg.Integrity, bytes)
            THEN /\ downloadedCount' = downloadedCount + 1
                 /\ \E long \in BOOLEAN : tw' = [tw EXCEPT ![t] = twAfterItem(tw[t].slept, long)]
                 /\ gaveUp' = gaveUp
                 /\ tarRets' = Add(tarRets, [run |-> runNo, v |-> tw[t].pkg, res |-> "ok",
                                             calls |-> tw[t].attempt, slept |-> tw[t].slept])
            ELSE /\ downloadedCount' = downloadedCount
                 /\ TarAttemptFailed(t)
    /\ UNCHANGED <<packageList, options, maxRuns, maxDownloadRetries, capacity, compared, stateFile, metaDisk, clock,
                   engine, chans, states, lastSync, analysedCount, mw,
                   loaded, needSeen, sent, enq, taken, rets, saves, cancelledIn, seeded>>

\* WriteTarball fails before the comparison: the directory or the file
\* cannot be created (nothing written), or the copy breaks (a truncated file
\* is left).
WriteTarballFail(t) ==
    /\ \/ /\ tw[t].pc = "dl"
          /\ disk' = disk
       \/ /\ tw[t].pc = "write"
          /\ disk' = (TarballPath(tw[t].pkg.Name, VersionString(tw[t].pkg.Version))
                       :> Truncated(tw[t].pkg.Url)) @@ disk
    /\ TarAttemptFailed(t)
    /\ UNCHANGED <<packageList, options, maxRuns, maxDownloadRetries, capacity, compared, stateFile, metaDisk, clock,
                   engine, chans, crawl, mw,
                   loaded, needSeen, sent, enq, taken, rets, saves, cancelledIn, seeded>>

\* ------------------------------------------------------ the specification
Next ==
    \/ NewNpmDownloadService
    \/ StartWorkers
    \/ EnqueueSeed
    \/ CloseMetadataChan
    \/ CloseDownloadChan
    \/ SaveState
    \/ Cancel
    \/ \E w \in MetaIds :
         \/ MetaReceive(w)
         \/ MetaCancelled(w)
         \/ MetaInactive(w)
         \/ CheckAnalysisNeeded(w)
         \/ FetchMetadataOk(w)
         \/ FetchMetadataFail(w)
         \/ DecodeOk(w)
         \/ DecodeFail(w)
         \/ SendDownload(w)
         \/ CheckAnalysisStarted(w)
         \/ MarkAnalysing(w)
         \/ SendDependency(w)
         \/ MarkAnalysed(w)
         \/ IncrementAnalysedCount(w)
    \/ \E t \in TarIds :
         \/ TarReceive(t)
         \/ TarCancelled(t)
         \/ TarInactive(t)
         \/ DownloadTarballStreamFail(t)
         \/ CreateTarball(t)
         \/ WriteTarball(t)
         \/ WriteTarballFail(t)

Spec == Init /\ [][Next]_vars

SpecRuns == InitRuns /\ [][Next]_vars

\* One run on the seeds A|alpha and A|beta on an empty mirror: one metadata
\* worker, MaxTarballWorkers tarball workers, one attempt.
InitTar ==
    InitWith(<<<<"A", alpha>>, <<"A", beta>>>>, Options(1, MaxTarballWorkers, FALSE),
             NoStateFile, 1, 1)

SpecTar == InitTar /\ [][Next]_vars

\* The versions SemVer.Compare is applied to: every field up to MaxField, no
\* tag or one of three tags, one of them a prefix of another.
Versions ==
    {SemVer(major, minor, patch, pre) :
        major \in 0..MaxField, minor \in 0..MaxField, patch \in 0..MaxField,
        pre \in {NoPre, <<"a">>, alpha, beta}}

\* Three versions wait to be compared; the tool is not run.
InitCompare ==
    \E a \in Versions, b \in Versions, c \in Versions :
        InitState(<<<<"A">>>>, Options(1, 1, FALSE), NoStateFile, 0, 1, channelBufferSize,
                  [a |-> a, b |-> b, c |-> c, done |-> FALSE,
                   ab |-> 0, ba |-> 0, bc |-> 0, ac |-> 0])

\* Compare is called on the pairs of the three versions.
CompareVersions ==
    /\ compared # <<>>
    /\ ~compared.done
    /\ compared' = [compared EXCEPT !.done = TRUE,
                                    !.ab = Compare(compared.a, compared.b),
                                    !.ba = Compare(compared.b, compared.a),
                                    !.bc = Compare(compared.b, compared.c),
                                    !.ac = Compare(compared.a, compared.c)]
    /\ UNCHANGED <<packageList, options, maxRuns, maxDownloadRetries, capacity, stateFile, disk, metaDisk, clock,
                   engine, chans, crawl, mw, tw, hist>>

SpecCompare == InitCompare /\ [][CompareVersions]_vars

\* The steps of the engine goroutine, of a metadata worker and of a tarball
\* worker; the Go scheduler runs every goroutine that can run and the timers
\* fire.  The cancellation of the context is not forced to happen.
EngineStep ==
    \/ NewNpmDownloadService
    \/ StartWorkers
    \/ EnqueueSeed
    \/ CloseMetadataChan
    \/ CloseDownloadChan
    \/ SaveState

MetaStep(w) ==
    \/ MetaReceive(w)
    \/ MetaCancelled(w)
    \/ MetaInactive(w)
    \/ CheckAnalysisNeeded(w)
    \/ FetchMetadataOk(w)
    \/ FetchMetadataFail(w)
    \/ DecodeOk(w)
    \/ DecodeFail(w)
    \/ SendDownload(w)
    \/ CheckAnalysisStarted(w)
    \/ MarkAnalysing(w)
    \/ SendDependency(w)
    \/ MarkAnalysed(w)
    \/ IncrementAnalysedCount(w)

TarStep(t) ==
    \/ TarReceive(t)
    \/ TarCancelled(t)
    \/ TarInactive(t)
    \/ DownloadTarballStreamFail(t)
    \/ CreateTarball(t)
    \/ WriteTarball(t)
    \/ WriteTarballFail(t)

Fairness ==
    /\ WF_vars(EngineStep)
    /\ \A w \in MetaIds : WF_vars(MetaStep(w))
    /\ \A t \in TarIds : WF_vars(TarStep(t))

SpecFair == InitFair /\ [][Next]_vars /\ Fairness

TypeOK ==
    /\ enginePc \in {"idle", "crashed", "start", "seed", "waitMeta", "waitTar", "save"}
    /\ capacity \in {SmallCapacity, channelBufferSize}
    /\ runNo \in 0..maxRuns
    /\ maxDownloadRetries \in {1, Retries, maxRetries, maxMetadataRetries}

\* ------------------------------------------------------------- properties
\* The number of entries of a bag that satisfy P.
Count(bag, P(_)) ==
    BagCardinality([e \in {x \in BagToSet(bag) : P(x)} |-> bag[e]])

\* Every metadata worker of the run has exited.
MetadataWorkersExited == runNo > 0 /\ enginePc \in {"waitTar", "save", "idle"}

\* C1: in a run seeded without duplicates (seed A, A and B depending on each
\* other), at most one worker sees IsAnalysisNeeded true for a fingerprint,
\* each fingerprint is analysed at most once and each selected version is
\* put on the download channel at most once.
C1_AnalysedAtMostOnce ==
    ~options.UpdateLocalRepository =>
        /\ \A e \in BagToSet(needSeen) : CopiesIn(e, needSeen) <= 1
        /\ \A r \in BagToSet(rets) :
              LET same(x) == x.run = r.run /\ x.fp = r.fp /\ x.res = "ok"
              IN Count(rets, same) <= 1
        /\ \A s \in BagToSet(sent) :
              LET same(x) == x.run = s.run /\ x.v = s.v
              IN Count(sent, same) <= 1

\* C2: absent cancellation, when the engine comes to persist the state file
\* the download channel is empty and every task put on it was dequeued by a
\* tarball worker exactly once.
C2_EveryTaskConsumed ==
    (runNo > 0 /\ enginePc \in {"save", "idle"} /\ ~cancelled) =>
        /\ downloadChan = <<>>
        /\ \A s \in BagToSet(sent) :
              LET same(x) == x.run = s.run /\ x.v = s.v
              IN s.run = runNo => Count(taken, same) = Count(sent, same)

\* C3: a descriptor whose fingerprint was not in the loaded state file is
\* analysed against the zero timestamp: every version that passes the
\* pre-release rule is selected.
C3_NewDescriptorUsesZeroTime ==
    \A r \in BagToSet(rets) :
        (r.res = "ok" /\ r.fp \notin loaded[r.run]) =>
            /\ r.ls = ZeroTime
            /\ r.sel = {v \in Registry(r.fp[1]) :
                          \/ v.Version.PreRelease = NoPre
                          \/ /\ Len(r.fp) > 1
                             /\ MatchString(r.fp[2], v.Version.PreRelease)}

\* C4: a version selected in one run whose download gave up after every
\* attempt, and whose file is therefore not on disk intact, is put on the
\* download channel again by the next run that analyses the same descriptor.
C4_FailedTarballRetriedNextRun ==
    \A s \in BagToSet(sent), r \in BagToSet(rets) :
        (/\ r.run = s.run + 1
         /\ s.run \notin cancelledIn
         /\ r.fp = s.d
         /\ r.res = "ok"
         /\ [run |-> s.run, v |-> s.v] \in BagToSet(gaveUp)
         /\ \/ TarballPath(s.v.Name, VersionString(s.v.Version)) \notin DOMAIN disk
            \/ disk[TarballPath(s.v.Name, VersionString(s.v.Version))] # Genuine(s.v.Url))
        => \E s2 \in BagToSet(sent) : s2.run = r.run /\ s2.d = s.d /\ s2.v = s.v

\* C5: every tarball file on disk has the digest that the registry declares
\* for that version.
C5_DiskMatchesIntegrity ==
    \A path \in DOMAIN disk :
        \E v \in AllVersions :
            /\ TarballPath(v.Name, VersionString(v.Version)) = path
            /\ GetSha512(disk[path]) = v.Integrity

\* The pre-release rule of the version filter, for descriptor d and version v.
PreReleaseAccepted(d, v) ==
    \/ v.Version.PreRelease = NoPre
    \/ /\ d.allowedPreVersion # NoRe
       /\ MatchString(d.allowedPreVersion, v.Version.PreRelease)

\* C6: a version passes the filter, as far as pre-release goes, exactly when
\* it has no pre-release tag or the descriptor's predicate matches the tag; a
\* descriptor without predicate rejects every pre-release; for foo|alpha on an
\* empty mirror the selection is exactly {1.0.0, 1.1.0-alpha, 1.2.0}.
C6_PreReleaseRule ==
    /\ \A r \in BagToSet(rets) :
          r.res = "ok" =>
             LET d == NewRetrievePackage(r.fp)
             IN /\ \A v \in Registry(d.Name) :
                      v.ReleaseDate > r.ls => (v \in r.sel <=> PreReleaseAccepted(d, v))
                /\ \A v \in r.sel : PreReleaseAccepted(d, v)
                /\ (r.fp = <<"foo", alpha>> /\ r.ls = ZeroTime) =>
                      {VersionString(v.Version) : v \in r.sel}
                         = {<<1, 0, 0>>, <<1, 1, 0, "-", alpha>>, <<1, 2, 0>>}
                /\ d.allowedPreVersion = NoRe =>
                      \A v \in r.sel : v.Version.PreRelease = NoPre
    /\ \A s \in BagToSet(sent) : PreReleaseAccepted(NewRetrievePackage(s.d), s.v)

\* foo|alpha has been analysed on an empty mirror and its three versions selected.
C6_Witness ==
    \E r \in BagToSet(rets) :
        /\ r.res = "ok" /\ r.fp = <<"foo", alpha>> /\ r.ls = ZeroTime
        /\ Cardinality(r.sel) = 3
        /\ \A v \in r.sel : \E s \in BagToSet(sent) : s.v = v

\* C7: among the versions that pass the pre-release rule, exactly those
\* released strictly after last_sync(descriptor) are selected, every selected
\* version is put on the download channel, and no version released at or
\* before last_sync is.
C7_StrictlyAfterLastSync ==
    /\ \A s \in BagToSet(sent) : s.v.ReleaseDate > s.ls
    /\ \A r \in BagToSet(rets) :
          r.res = "ok" =>
             LET d == NewRetrievePackage(r.fp)
             IN /\ \A v \in Registry(d.Name) :
                      PreReleaseAccepted(d, v) => (v \in r.sel <=> v.ReleaseDate > r.ls)
                /\ \A v \in r.sel :
                      [run |-> r.run, d |-> r.fp, v |-> v, ls |-> r.ls] \in BagToSet(sent)

\* foo|alpha was analysed against last sync 2: 1.1.0-alpha, released at 2, and
\* 1.0.0 are left out, 1.2.0 is selected.
C7_Witness ==
    \E r \in BagToSet(rets) :
        /\ r.res = "ok" /\ r.fp = <<"foo", alpha>> /\ r.ls = 2
        /\ {VersionString(v.Version) : v \in r.sel} = {<<1, 2, 0>>}

\* Every release is not later than the start of the first run as the state
\* file records it, truncated to the second.
ReleasedBeforeFirstRun == \A v \in AllVersions : v.ReleaseDate <= RFC3339(FirstRunStart)

\* The sync timestamps written never decrease from one run to the next.
SyncTimestampsMonotone ==
    \A i, j \in DOMAIN saves : i <= j => saves[i].lastSync <= saves[j].lastSync

C9_DepsEnqueuedWhenParentAnalysed ==
    \A w \in MetaIds :
        mw[w].pc = "incr" =>
            \A v \in mw[w].sel : \A n \in v.Dependencies \cup v.PeerDeps :
                <<runNo, <<n>>>> \in BagToSet(enq)

\* C9 as amended: when a worker has marked the parent ANALYSED, every
\* dependency and peer dependency of its selected versions is ANALYSING or
\* ANALYSED in the crawl state and has been put on the metadata channel or is
\* held by the worker that marked it and is about to send it; once every
\* metadata worker has exited, each has been put on the metadata channel.
C9_DepsMarkedThenEnqueued ==
    /\ \A w \in MetaIds :
          mw[w].pc = "incr" =>
              \A v \in mw[w].sel : \A n \in v.Dependencies \cup v.PeerDeps :
                  /\ <<n>> \in DOMAIN states
                  /\ states[<<n>>] \in {AnalysingState, AnalysedState}
                  /\ \/ <<runNo, <<n>>>> \in BagToSet(enq)
                     \/ \E w2 \in MetaIds :
                           mw[w2].pc = "depSend" /\ String(mw[w2].dep) = <<n>>
    /\ MetadataWorkersExited =>
          \A r \in BagToSet(rets) :
              (r.run = runNo /\ r.res = "ok") =>
                  \A v \in r.sel : \A n \in v.Dependencies \cup v.PeerDeps :
                      <<runNo, <<n>>>> \in BagToSet(enq)

\* A worker has marked the parent ANALYSED while the dependency is marked by
\* another worker that has not sent it yet.
C9_Witness ==
    \E w, w2 \in MetaIds :
        /\ mw[w].pc = "incr"
        /\ mw[w2].pc = "depSend"
        /\ \E v \in mw[w].sel : mw[w2].dep.Name \in v.Dependencies \cup v.PeerDeps
        /\ <<runNo, String(mw[w2].dep)>> \notin BagToSet(enq)

\* C10: whenever retrieveMetadata returns nil after an analysis the
\* descriptor is ANALYSED at that moment, and analysedCount counts exactly
\* the analyses that returned nil (one increment each, none for an error or
\* a skip).
C10_ReturnLeavesAnalysed ==
    /\ \A r \in BagToSet(rets) : r.res = "ok" => r.st = AnalysedState
    /\ LET okNow(x) == x.run = runNo /\ x.res = "ok"
       IN analysedCount = Count(rets, okNow)

FailedPersistently ==
    \/ \E r \in BagToSet(rets) : r.run = runNo /\ r.res = "err"
    \/ \E g \in BagToSet(gaveUp) : g.run = runNo

\* C12: a persistent failure never stops the crawl: in a run with tarball
\* workers and without cancellation in which some call failed on every
\* attempt, when the engine comes to persist the state file nothing is left
\* on the download channel, every task put on it was taken by a tarball
\* worker, and the descriptor of a version whose tarball failed is in the
\* descriptor set that is written.
C12_FailureNeverStopsCrawl ==
    (/\ runNo > 0 /\ enginePc \in {"save", "idle"} /\ ~cancelled
     /\ options.DownloadWorkers >= 1 /\ FailedPersistently) =>
        /\ downloadChan = <<>>
        /\ \A s \in BagToSet(sent) :
              LET same(x) == x.run = s.run /\ x.v = s.v
              IN s.run = runNo => Count(taken, same) >= 1
        /\ \A g \in BagToSet(gaveUp) :
              g.run = runNo => \E fp \in DOMAIN states : fp[1] = g.v.Name

\* DownloadPackages has returned from the current run.
Returned == runNo > 0 /\ enginePc = "idle"

\* Both worker pools have exited.
WorkersExited ==
    /\ \A w \in MetaIds : mw[w].pc \in {"off", "done"}
    /\ \A t \in TarIds : tw[t].pc \in {"off", "done"}

\* The fingerprints of the dependencies and peer dependencies of the versions
\* selected by an analysis.
Discovered(r) ==
    {String(NewRetrievePackage(<<dep>>)) :
        dep \in UNION {v.Dependencies \cup v.PeerDeps : v \in r.sel}}

IsCleanLine(fp) == fp # <<"">> /\ TrimLine(fp) = fp

\* Loading the state file that the run has just saved returns the descriptors
\* that were saved and the starting date of the run truncated to the second.
RoundTrip ==
    LET st == LoadDownloadedPackagesState(stateFile)
    IN /\ ~st.err
       /\ st.packages = GetPackages
       /\ st.lastSync = RFC3339(startingDate)

\* C14 as stated: for every list of descriptors and every timestamp, saving
\* the state and loading it back returns the same descriptors, pre-release
\* expressions included, and the timestamp truncated to the second.
C14_SaveLoadRoundTrip == Returned => RoundTrip

\* C14 as amended: the round trip holds for the descriptors whose
\* fingerprints are not empty and have no white space around them.
C14_CleanSaveLoadRoundTrip ==
    (Returned /\ \A pkg \in GetPackages : IsCleanLine(String(pkg))) => RoundTrip

\* A run has saved a descriptor with a pre-release expression under a
\* starting date that is not a whole second, and the file loads back.
C14_Witness ==
    /\ Returned
    /\ RFC3339(startingDate) # startingDate
    /\ \E pkg \in GetPackages : pkg.allowedPreVersion # NoRe
    /\ \A pkg \in GetPackages : IsCleanLine(String(pkg))
    /\ RoundTrip

\* The state file has been loaded by the current run and not yet written.
StateLoaded == runNo > 0 /\ enginePc # "idle"

\* The load of the current run returned an error.
LoadFailed == enginePc = "crashed"

\* An absent state file loads as the empty list with the zero timestamp.
AbsentLoadsEmpty ==
    (StateLoaded /\ ~stateFile.exists) =>
        ~LoadFailed /\ loaded[runNo] = {} /\ lastSync = ZeroTime

\* C15 as stated: an absent file loads as the empty list with the zero
\* timestamp and no error; an existing file loads without error exactly when
\* its first line carries the prefix and an RFC3339 date, a file with no
\* header line included.
C15_HeaderMandatory ==
    /\ AbsentLoadsEmpty
    /\ (StateLoaded /\ stateFile.exists) => (~LoadFailed <=> stateFile.header = "ok")

\* C15 as amended: an existing file loads without error exactly when its
\* first line carries the prefix and an RFC3339 date or the file is empty;
\* the empty file loads as the empty list with the zero timestamp.
C15_HeaderMandatoryUnlessEmpty ==
    /\ AbsentLoadsEmpty
    /\ (StateLoaded /\ stateFile.exists) =>
          /\ ~LoadFailed <=> stateFile.header \in {"ok", "none"}
          /\ stateFile.header = "none" => loaded[runNo] = {} /\ lastSync = ZeroTime

\* A run has loaded an existing, empty state file and goes on.
C15_Witness ==
    /\ StateLoaded /\ ~LoadFailed
    /\ stateFile = EmptyStateFile
    /\ loaded[runNo] = {}

\* NewNpmDownloadService returned nil to the current run: no service, hence
\* no starting date, was built.
ServiceIsNil == runNo > 0 /\ startingDate = ZeroTime

\* Nothing of the crawl has happened in the current run.
NothingDone ==
    /\ \A w \in MetaIds : mw[w].pc = "off"
    /\ \A t \in TarIds : tw[t].pc = "off"
    /\ metadataChan = <<>> /\ downloadChan = <<>> /\ seedQ = <<>> /\ seeded = <<>>
    /\ \A x \in BagToSet(needSeen) \cup BagToSet(enq) : x[1] # runNo
    /\ \A x \in BagToSet(rets) \cup BagToSet(sent) \cup BagToSet(taken)
                 \cup BagToSet(tarRets) \cup BagToSet(gaveUp) : x.run # runNo

\* C16: when the state file does not load (bad prefix or bad date) the run
\* does nothing else: it starts no worker, fetches no metadata and no
\* tarball, and leaves the state file as it was.
C16_LoadFailureStopsRun ==
    ServiceIsNil =>
        /\ NothingDone
        /\ enginePc = "crashed"
        /\ stateFile.header \in {"badPrefix", "badDate"}
        /\ stateFile \notin Range(saves)

\* The run has stopped on a state file whose date does not parse.
C16_Witness ==
    /\ enginePc = "crashed"
    /\ ServiceIsNil
    /\ stateFile = CorruptStateFile("badDate", {<<"foo">>})

\* A step of the engine, of a worker or of a timer; the cancellation of the
\* context is not one.
ProgramStep ==
    \/ EngineStep
    \/ \E w \in MetaIds : MetaStep(w)
    \/ \E t \in TarIds : TarStep(t)

\* DownloadPackages is running: called and not yet returned.
Running == runNo > 0 /\ enginePc \in {"start", "seed", "waitMeta", "waitTar", "save"}

\* C17: absent cancellation and on a finite registry the run terminates
\* under fair scheduling; hence a run that is not cancelled and has not yet
\* returned can always take a step: it is never left with every goroutine
\* blocked.
C17_RunCanProceed ==
    (Running /\ ~cancelled) => ENABLED <<ProgramStep>>_vars

\* C18: after the cancellation every worker exits and DownloadPackages
\* returns, whatever each worker was doing; hence a cancelled run that has
\* not yet returned can always take a step: no goroutine is left blocked
\* for ever.
C18_CancelledRunCanProceed ==
    (Running /\ cancelled) => ENABLED <<ProgramStep>>_vars

fooAlpha == NewRetrievePackage(<<"foo", alpha>>)
fooBeta == NewRetrievePackage(<<"foo", beta>>)

\* The descriptor of this fingerprint was analysed in the current run: its
\* analysis returned nil, or its worker is between SetState and the return.
AnalysedInRun(fp) ==
    \/ \E r \in BagToSet(rets) : r.run = runNo /\ r.fp = fp /\ r.res = "ok"
    \/ \E w \in MetaIds : mw[w].pc = "incr" /\ String(mw[w].pkg) = fp

\* C19: foo|alpha and foo|beta have different fingerprints and independent
\* lifecycle states: one is ANALYSED only once its own analysis is done, and
\* in a run seeded with both neither is ever skipped as already processed,
\* so that each one received is analysed.
C19_SameNameDistinctTargets ==
    /\ String(fooAlpha) # String(fooBeta)
    /\ \A pkg \in {fooAlpha, fooBeta} :
          ~IsAnalysisNeeded(pkg) => AnalysedInRun(String(pkg))
    /\ packageList = <<<<"foo", alpha>>, <<"foo", beta>>>> =>
          \A r \in BagToSet(rets) : r.res # "skip"

\* A run seeded with foo|alpha and foo|beta has analysed both, each selecting
\* the pre-release versions of its own predicate.
C19_Witness ==
    /\ Returned
    /\ \E ra, rb \in BagToSet(rets) :
          /\ ra.run = runNo /\ ra.fp = String(fooAlpha) /\ ra.res = "ok"
          /\ rb.run = runNo /\ rb.fp = String(fooBeta) /\ rb.res = "ok"
          /\ ra.sel # rb.sel
          /\ ra.sel \ rb.sel # {} /\ rb.sel \ ra.sel # {}

\* The fingerprints of the seed strings, in the order given.
SeedFingerprints ==
    [i \in 1..Len(packageList) |-> String(NewRetrievePackage(packageList[i]))]

\* The number of descriptors the engine has to enqueue from the state file.
KnownToEnqueue ==
    IF options.UpdateLocalRepository THEN Cardinality(loaded[runNo]) ELSE 0

\* C20: the engine puts on the metadata channel one descriptor per seed
\* string, in order, followed, exactly when the refresh option is set, by
\* one descriptor per fingerprint loaded from the state file; with the option
\* unset it enqueues no descriptor of the state file.
C20_SeedsThenKnown ==
    (Running \/ Returned) =>
        LET n == Len(packageList)
        IN /\ Len(seeded) <= n + KnownToEnqueue
           /\ \A i \in DOMAIN seeded :
                 IF i <= n THEN seeded[i] = SeedFingerprints[i]
                 ELSE /\ seeded[i] \in loaded[runNo]
                      /\ \A j \in DOMAIN seeded : (j > n /\ j # i) => seeded[j] # seeded[i]
           /\ enginePc \in {"waitMeta", "waitTar", "save", "idle"} =>
                 Len(seeded) = n + KnownToEnqueue

\* With the refresh option set the engine has enqueued the seed and then the
\* fingerprint loaded from the state file.
C20_Witness ==
    /\ Running /\ enginePc = "waitMeta"
    /\ options.UpdateLocalRepository
    /\ loaded[runNo] # {}
    /\ Len(seeded) = Len(packageList) + Cardinality(loaded[runNo])

\* C21: within a run the lifecycle state of a fingerprint only moves forward
\* along PREVIOUSLY_IN_LOCAL_REPO -> ANALYSING -> ANALYSED: no step of a
\* worker lowers the state of a fingerprint, and none sets an ANALYSED
\* fingerprint back to ANALYSING.
C21_StateOnlyMovesForward ==
    [][runNo' = runNo =>
         \A fp \in DOMAIN states :
             fp \in DOMAIN states' /\ states'[fp] >= states[fp]]_vars

\* C22: every fingerprint pending on the metadata channel, put there by the
\* engine as a seed or by a worker as a dependency, is in the crawl-state map,
\* and is ANALYSING or ANALYSED there unless it came from the state file.
C22_PendingAreMarked ==
    \A i \in DOMAIN metadataChan :
        LET fp == String(metadataChan[i])
        IN /\ fp \in DOMAIN states
           /\ fp \notin loaded[runNo] => states[fp] \in {AnalysingState, AnalysedState}

\* C23: when the metadata of a descriptor fails on every attempt, the
\* descriptor, seed, state-file entry or dependency alike, is ANALYSING at
\* the moment retrieveMetadata returns the error.
C23_FailedStaysAnalysing ==
    \A r \in BagToSet(rets) : r.res = "err" => r.st = AnalysingState

\* A step that sends nothing on either channel and changes no lifecycle state.
NothingEnqueuedOrMarked ==
    /\ states' = states
    /\ metadataChan' = metadataChan /\ downloadChan' = downloadChan
    /\ sent' = sent /\ enq' = enq

\* C24: the metadata retry wraps fetch, tee-write and decode as one unit.  A
\* failure of any step ends the attempt and the next attempt starts from the
\* fetch; there are at most maxDownloadRetries attempts; when the last one
\* fails the error is returned with no task and no dependency enqueued and
\* no state changed.
C24_MetadataRetryIsOneUnit ==
    [][\A w \in MetaIds :
         (mw[w].pc \in {"fetch", "decode"} /\ mw'[w] # mw[w]) =>
            /\ mw[w].attempt \in 1..maxDownloadRetries
            /\ \/ /\ mw[w].pc = "fetch" /\ mw'[w].pc = "decode"
                  /\ mw'[w].attempt = mw[w].attempt
               \/ /\ mw[w].pc = "decode" /\ mw'[w].pc \in {"send", "depCheck", "setAnalysed"}
               \/ /\ mw'[w].pc = "fetch"
                  /\ mw[w].attempt < maxDownloadRetries
                  /\ mw'[w].attempt = mw[w].attempt + 1
                  /\ rets' = rets
                  /\ NothingEnqueuedOrMarked
               \/ /\ mw'[w].pc = "select"
                  /\ mw[w].attempt = maxDownloadRetries
                  /\ \E r \in BagToSet(rets') :
                        /\ r.res = "err" /\ r.fp = String(mw[w].pkg) /\ r.sel = {}
                        /\ rets' = Add(rets, r)
                  /\ NothingEnqueuedOrMarked]_vars

\* The metadata of a descriptor failed on each of several attempts, one of
\* them in the decode step, and the error was returned.
C24_Witness ==
    /\ maxDownloadRetries >= 2
    /\ \E r \in BagToSet(rets) :
          /\ r.run = runNo /\ r.res = "err"
          /\ r.fp[1] \in DOMAIN metaDisk
          /\ metaDisk[r.fp[1]].writers = 0
          /\ metaDisk[r.fp[1]].content = "partial"

\* 1 + 2 + ... + n
Triangle(n) == (n * (n + 1)) \div 2

\* C25: the backoff is linear: a call that is at its attempt m, or that
\* succeeded on its attempt m, has waited backoffFactor * (1 + ... + (m - 1))
\* in backoff, in the metadata retry and in the tarball retry alike.
C25_BackoffIsLinear ==
    /\ \A w \in MetaIds :
          mw[w].attempt >= 1 =>
              mw[w].slept = backoffFactor * Triangle(mw[w].attempt - 1)
    /\ \A t \in TarIds :
          tw[t].attempt >= 1 =>
              tw[t].slept = backoffFactor * Triangle(tw[t].attempt - 1)
    /\ \A r \in BagToSet(tarRets) :
          r.res = "ok" => r.slept = backoffFactor * Triangle(r.calls - 1)

\* A tarball was written on the fourth attempt, after three failures and a
\* wait of (1 + 2 + 3) * backoffFactor.
C25_Witness ==
    \E r \in BagToSet(tarRets) :
        r.res = "ok" /\ r.calls = 4 /\ r.slept = (1 + 2 + 3) * backoffFactor

\* C26: once the context is cancelled a worker inside a retry loop starts no
\* further attempt, in the metadata retry and in the tarball retry alike.
C26_NoAttemptAfterCancel ==
    [][cancelled =>
         /\ \A w \in MetaIds :
               mw[w].attempt >= 1 => mw'[w].attempt # mw[w].attempt + 1
         /\ \A t \in TarIds :
               tw[t].attempt >= 1 => tw'[t].attempt # tw[t].attempt + 1]_vars

\* The metadata worker is running: started and not yet returned.
MetaLive(w) == mw[w].pc \notin {"off", "done"}

\* The metadata worker is blocked in a send that nobody will release: on the
\* full download channel with every tarball worker gone, or on the full
\* metadata channel, whose only receivers are the metadata workers.
BlockedInSend(w) ==
    \/ /\ mw[w].pc = "send"
       /\ Len(downloadChan) >= capacity
       /\ \A t \in TarIds : tw[t].pc \in {"off", "done"}
    \/ /\ mw[w].pc = "depSend"
       /\ Len(metadataChan) >= capacity

\* C27: the pipeline never deadlocks on its channels: in no reachable state
\* is every live metadata worker blocked sending on a full channel from which
\* no worker will ever receive.
C27_NoChannelDeadlock ==
    (\E w \in MetaIds : MetaLive(w)) =>
        \E w \in MetaIds : MetaLive(w) /\ ~BlockedInSend(w)

MetadataPoolExited == \A w \in MetaIds : mw[w].pc \in {"off", "done"}
TarballPoolExited == \A t \in TarIds : tw[t].pc \in {"off", "done"}

\* C28: the engine shuts down in a fixed order: the metadata channel is
\* closed only after every metadata worker has exited, the tarball workers
\* are awaited only after that close, the download channel is closed only
\* after every tarball worker has exited, and the state file is written only
\* after both closes.
C28_ShutdownOrder ==
    /\ metaClosed => MetadataPoolExited
    /\ (Running /\ enginePc = "waitTar") => metaClosed
    /\ dlClosed => metaClosed /\ TarballPoolExited
    /\ (Running /\ enginePc = "save") => metaClosed /\ dlClosed
    /\ (Running /\ enginePc # "save") => Len(saves) < runNo
    /\ Returned => Len(saves) = runNo /\ metaClosed /\ dlClosed

\* A run in which both pools had work has closed both channels and written
\* the state file.
C28_Witness ==
    /\ Returned /\ metaClosed /\ dlClosed
    /\ \E r \in BagToSet(rets) : r.run = runNo /\ r.res = "ok"
    /\ \E r \in BagToSet(tarRets) : r.run = runNo /\ r.res = "ok"

C30_OneWriterPerPackageJson ==
    \A name \in DOMAIN metaDisk : metaDisk[name].writers <= 1

\* The path a tarball worker has created and not yet closed.
OpenTarball(t) == TarballPath(tw[t].pkg.Name, VersionString(tw[t].pkg.Version))

\* C31: no two tarball workers ever write the same tarball path at the same
\* time: two workers that both hold a tarball file open hold different paths.
C31_OneWriterPerTarball ==
    \A t1, t2 \in TarIds :
        (t1 # t2 /\ tw[t1].pc = "write" /\ tw[t2].pc = "write") =>
            OpenTarball(t1) # OpenTarball(t2)

\* C32: a dependency or peer dependency whose name is empty is never put on
\* the metadata channel and never enters the crawl-state map, so no empty
\* fingerprint is written to the state file.
C32_EmptyDependencyIgnored ==
    /\ \A i \in DOMAIN metadataChan : metadataChan[i].Name # ""
    /\ String(NoPackage) \notin DOMAIN states
    /\ stateFile.exists => String(NoPackage) \notin stateFile.lines

\* C33: a metadata or tarball worker exits only because it observed the
\* cancellation, because its input channel was closed, or because its
\* inactivity timer expired, each of them at its select; a failure while an
\* item is processed never makes the worker exit.
C33_WorkerExitReasons ==
    [][/\ \A w \in MetaIds :
            (mw[w].pc # "done" /\ mw'[w].pc = "done") =>
                /\ mw[w].pc = "select"
                /\ \/ cancelled
                   \/ metadataChan = <<>> /\ metaClosed
                   \/ mw[w].timer.pending \/ (metadataChan = <<>> /\ ~metaClosed)
       /\ \A t \in TarIds :
            (tw[t].pc # "done" /\ tw'[t].pc = "done") =>
                /\ tw[t].pc = "select"
                /\ \/ cancelled
                   \/ downloadChan = <<>> /\ dlClosed
                   \/ tw[t].timer.pending \/ (downloadChan = <<>> /\ ~dlClosed)]_vars

\* Both pools have returned an error for an item of the run and every worker
\* has exited since, without any cancellation.
C33_Witness ==
    /\ ~cancelled
    /\ \E r \in BagToSet(rets) : r.run = runNo /\ r.res = "err"
    /\ \E r \in BagToSet(tarRets) : r.run = runNo /\ r.res = "err"
    /\ \E w \in MetaIds : mw[w].pc = "done"
    /\ \E t \in TarIds : tw[t].pc = "done"
    /\ MetadataPoolExited /\ TarballPoolExited

\* A worker that has taken an item and has not finished with it.
Processing(pc) == pc \notin {"off", "select", "drain", "done"}

\* C34: when a worker finishes an item, whether the processing succeeded or
\* failed and however long it took, the worker is back at its select with a
\* full inactivity window: it has not exited, it is not blocked on the timer
\* channel, and no expiry of the old window is left for the select to see.
C34_TimerRearmedAfterItem ==
    [][/\ \A w \in MetaIds :
            (Processing(mw[w].pc) /\ ~Processing(mw'[w].pc)) =>
                mw'[w].pc = "select" /\ mw'[w].timer = NewTimer
       /\ \A t \in TarIds :
            (Processing(tw[t].pc) /\ ~Processing(tw'[t].pc)) =>
                tw'[t].pc = "select" /\ tw'[t].timer = NewTimer]_vars

\* A download failed on every attempt and the backoff alone lasted longer
\* than the inactivity window; the worker is back at its select.
C34_Witness ==
    /\ \E r \in BagToSet(tarRets) :
          r.run = runNo /\ r.res = "err" /\ r.slept >= workerInactivityTime
    /\ \E t \in TarIds : tw[t].pc = "select" /\ tw[t].timer = NewTimer

\* C35: a descriptor or a download task with an empty name that a worker
\* dequeues is skipped: nothing is fetched or written, the crawl state and
\* the counters keep their values, nothing is enqueued, and the worker stays
\* at its select with its timer as it was.
C35_EmptyNameSkipped ==
    [][/\ (/\ runNo' = runNo /\ enginePc' = enginePc
           /\ metadataChan # <<>> /\ metadataChan' = Tail(metadataChan)
           /\ Head(metadataChan).Name = "") =>
              /\ mw' = mw /\ crawl' = crawl /\ downloadChan' = downloadChan
              /\ disk' = disk /\ metaDisk' = metaDisk /\ rets' = rets
       /\ (/\ runNo' = runNo /\ enginePc' = enginePc
           /\ downloadChan # <<>> /\ downloadChan' = Tail(downloadChan)
           /\ Head(downloadChan).Name = "") =>
              /\ tw' = tw /\ crawl' = crawl /\ metadataChan' = metadataChan
              /\ disk' = disk /\ metaDisk' = metaDisk /\ tarRets' = tarRets]_vars

\* A descriptor with the empty name was enqueued and a download task with the
\* empty name was sent; both have been dequeued and nothing was returned for
\* either.
C35_Witness ==
    /\ <<runNo, String(NoPackage)>> \in BagToSet(enq)
    /\ \A i \in DOMAIN metadataChan : metadataChan[i].Name # ""
    /\ \E x \in BagToSet(taken) : x.run = runNo /\ x.v.Name = ""
    /\ \A r \in BagToSet(rets) : r.fp # String(NoPackage)
    /\ \A r \in BagToSet(tarRets) : r.v.Name # ""

\* The fingerprints of the map and some that are not in it.
SomeFingerprints == DOMAIN states \cup {<<"A">>, <<"B">>, <<"foo", alpha>>, <<"zzz">>, String(NoPackage)}

\* C36: IsAnalysisNeeded is false exactly for a fingerprint that is in the
\* map as ANALYSED and true for one that is unknown, KNOWN or ANALYSING; when
\* it is false retrieveMetadata returns nil and the worker is back at its
\* select: nothing is fetched, written or enqueued and no state changes.
\* When it is true the worker goes on to the fetch.
C36_NeedsAnalysisUnlessAnalysed ==
    [][/\ \A fp \in SomeFingerprints :
            IsAnalysisNeeded(NewRetrievePackage(fp)) = (StateOf(fp) # AnalysedState)
       /\ \A w \in MetaIds :
            (mw[w].pc = "check" /\ mw'[w] # mw[w]) =>
                IF StateOf(String(mw[w].pkg)) = AnalysedState
                THEN /\ mw'[w].pc = "select"
                     /\ crawl' = crawl /\ chans' = chans
                     /\ metaDisk' = metaDisk /\ disk' = disk
                     /\ sent' = sent /\ enq' = enq
                     /\ \E r \in BagToSet(rets') :
                           /\ r.res = "skip" /\ r.fp = String(mw[w].pkg)
                           /\ rets' = Add(rets, r)
                ELSE /\ mw'[w].pc = "fetch"
                     /\ states' = states /\ rets' = rets]_vars

\* A descriptor was dequeued when its fingerprint was already ANALYSED and
\* retrieveMetadata returned at once, while another fingerprint of the map is
\* ANALYSING.
C36_Witness ==
    /\ \E r \in BagToSet(rets) : r.run = runNo /\ r.res = "skip" /\ r.st = AnalysedState
    /\ \E fp \in DOMAIN states : states[fp] = AnalysingState

\* C37: IsAnalysisStarted is true exactly for a fingerprint that is in the map
\* as ANALYSING or ANALYSED and false for one that is unknown or KNOWN; it is
\* true of a descriptor as soon as SetState(descriptor, ANALYSING) has
\* returned.
C37_StartedIffAnalysingOrAnalysed ==
    [][/\ \A fp \in SomeFingerprints :
            IsAnalysisStarted(NewRetrievePackage(fp))
                = (StateOf(fp) \in {AnalysingState, AnalysedState})
       /\ \A w \in MetaIds :
            (mw[w].pc = "depSet" /\ mw'[w].pc = "depSend") =>
                IsAnalysisStarted(mw[w].dep)']_vars

\* SetState(dependency, ANALYSING) has just returned while the map also holds
\* a fingerprint that is KNOWN.
C37_Witness ==
    /\ \E w \in MetaIds : mw[w].pc = "depSend" /\ StateOf(String(mw[w].dep)) = AnalysingState
    /\ \E fp \in DOMAIN states : states[fp] = PreviouslyInLocalRepoState

\* The first of major, minor and patch in which two versions differ decides
\* alone: 1 when v has the larger number, -1 when it has the smaller one, 0
\* when the three numbers are equal.
ByNumbers(v, other) ==
    LET fields == <<<<v.Major, other.Major>>, <<v.Minor, other.Minor>>, <<v.Patch, other.Patch>>>>
        differ == {i \in 1..3 : fields[i][1] # fields[i][2]}
    IN IF differ = {} THEN 0
       ELSE LET first == CHOOSE i \in differ : \A j \in differ : i <= j
            IN IF fields[first][1] > fields[first][2] THEN 1 ELSE 0 - 1

\* C38: SemVer.Compare is a total order: Compare(a, b) = -Compare(b, a); it
\* is 0 exactly when the four fields are equal; it is transitive; it orders
\* by major, then minor, then patch; and a version with a pre-release tag is
\* strictly less than the version with the same numbers and no tag.
C38_CompareIsTotalOrder ==
    (compared # <<>> /\ compared.done) =>
        LET a == compared.a
            b == compared.b
        IN /\ compared.ab \in {0 - 1, 0, 1}
           /\ compared.ab = 0 - compared.ba
           /\ (compared.ab = 0) = (a = b)
           /\ (compared.ab <= 0 /\ compared.bc <= 0) => compared.ac <= 0
           /\ (compared.ab = 0 /\ compared.bc = 0) => compared.ac = 0
           /\ ByNumbers(a, b) # 0 => compared.ab = ByNumbers(a, b)
           /\ (ByNumbers(a, b) = 0 /\ IsPreRelease(a) /\ ~IsPreRelease(b)) =>
                 compared.ab = 0 - 1

\* Compare was applied to a pre-release and to the release with the same
\* numbers, and to a third version larger than both.
C38_Witness ==
    /\ compared # <<>>
    /\ compared.done
    /\ ByNumbers(compared.a, compared.b) = 0
    /\ IsPreRelease(compared.a) /\ ~IsPreRelease(compared.b)
    /\ compared.ab = 0 - 1 /\ compared.bc = 0 - 1 /\ compared.ac = 0 - 1

\* C39: no goroutine ever sends on a closed channel: every send on the
\* metadata channel or on the download channel finds it open; when the engine
\* closes the metadata channel it has sent every seed and no metadata worker
\* is alive; when it closes the download channel no metadata worker is alive.
C39_NoSendOnClosedChannel ==
    [][/\ (runNo' = runNo /\ Len(metadataChan') > Len(metadataChan)) => ~metaClosed
       /\ (runNo' = runNo /\ Len(downloadChan') > Len(downloadChan)) => ~dlClosed
       /\ (~metaClosed /\ metaClosed') =>
              MetadataPoolExited /\ seedQ = <<>> /\ enginePc = "waitMeta"
       /\ (~dlClosed /\ dlClosed') => MetadataPoolExited /\ metaClosed]_vars

\* The engine sent its seed, a metadata worker sent a dependency and a
\* version, and both channels have been closed since.
C39_Witness ==
    /\ metaClosed /\ dlClosed
    /\ \E e \in BagToSet(enq) : e[1] = runNo /\ e[2] \in Range(seeded)
    /\ \E e \in BagToSet(enq) : e[1] = runNo /\ e[2] \notin Range(seeded)
    /\ \E x \in BagToSet(sent) : x.run = runNo

\* C40: every fingerprint written to the state file at the end of a run was
\* loaded from the previous state file or had its metadata analysed with
\* success during that run.
C40_SavedWereLoadedOrAnalysed ==
    \A run \in DOMAIN saves :
        \A fp \in saves[run].lines :
            \/ fp \in loaded[run]
            \/ \E r \in BagToSet(rets) : r.run = run /\ r.fp = fp /\ r.res = "ok"

====
